---------------------------- MODULE Spec2Model ----------------------------
(***************************************************************************)
(* Post-processing stage of OpenHantek6022: MathChannelGenerator::process  *)
(* and SpectrumGenerator::process acting on one PPresult container.        *)
(*                                                                         *)
(* Numbers.  Voltage samples and raw transform values are integers.        *)
(* Quotients the code forms in double precision (dc, spectrum.interval,    *)
(* frequency) are exact fractions <<num, den>> in lowest terms; ac and rms *)
(* are kept as the fraction under their square root.  dB values are whole  *)
(* decibels: 20*log10(n) is rounded down (TwentyLog10).                    *)
(*                                                                         *)
(* fftw is an external library: what fftw_execute leaves in its output     *)
(* buffer is an input of the model, drawn from a finite set per call.      *)
(***************************************************************************)
EXTENDS Integers, Sequences, FiniteSets, TLC

VARIABLES
    result,            \* PPresult::analyzedData, one DataChannel per channel
    scope,             \* DsoSettingsScope: voltage[ch].used, spectrum[ch].used, math mode
    postprocessing,    \* DsoSettingsPostProcessing: spectrumWindow, spectrumReference, spectrumLimit
    lastWindowBuffer,  \* SpectrumGenerator::lastWindowBuffer (NoBuffer = nullptr)
    lastWindow,        \* SpectrumGenerator::lastWindow
    lastRecordLength,  \* SpectrumGenerator::lastRecordLength
    rhsFirst,          \* how the build orders the two uses of fwd in part_000 line 200
    lastOp,            \* the operation that produced this state
    trace,             \* per channel, the locals of the last SpectrumGenerator::process
    faults,            \* what the last operation did outside the language's defined behaviour
    crashed            \* the process was terminated inside the last operation

vars == <<result, scope, postprocessing, lastWindowBuffer, lastWindow,
          lastRecordLength, rhsFirst, lastOp, trace, faults, crashed>>

----------------------------------------------------------------------------
(* Bounds of the model *)

\* longest record the acquisition hands to the math combiner
MaxLen == 5

\* longest of the short records whose transform outputs are enumerated
MaxShort == 9

\* the one long record, long enough for a peak position beyond the threshold
LongLen == 206

----------------------------------------------------------------------------
(* Arithmetic helpers *)

Min(a, b) == IF a < b THEN a ELSE b

Abs(x) == IF x < 0 THEN -x ELSE x

RECURSIVE GCD(_, _)
GCD(a, b) == IF b = 0 THEN a ELSE GCD(b, a % b)

\* the fraction n/d (d > 0) in lowest terms
Rat(n, d) == LET g == GCD(Abs(n), d) IN <<n \div g, d \div g>>

Zero == Rat(0, 1)

RatAdd(p, q) == Rat(p[1] * q[2] + q[1] * p[2], p[2] * q[2])

RatMul(p, q) == Rat(p[1] * q[1], p[2] * q[2])

\* for (i = lo; i <= hi; ++i) state = Step(state, i), the lower half of the
\* range evaluated before the upper half is entered
RECURSIVE Loop(_, _, _, _)
Loop(Step(_, _), state, lo, hi) ==
    IF lo > hi THEN state
    ELSE IF lo = hi THEN Step(state, lo)
    ELSE LET mid == (lo + hi) \div 2
         IN CHOOSE r \in { Loop(Step, left, mid + 1, hi) :
                              left \in {Loop(Step, state, lo, mid)} } : TRUE

----------------------------------------------------------------------------
(* The result container (ppresult.h) *)

PhysicalChannels == 2

\* the physical channels followed by the one math channel
ChannelCount == PhysicalChannels + 1

Channels == 0 .. (ChannelCount - 1)

DerivedChannels == { ch \in Channels : ch >= PhysicalChannels }

\* struct SampleValues, default-constructed
EmptySampleValues == [sample |-> <<>>, interval |-> 0]

EmptySpectrumValues == [sample |-> <<>>, interval |-> Zero]

\* struct DataChannel, default-constructed
DefaultDataChannel ==
    [voltage   |-> EmptySampleValues,
     spectrum  |-> EmptySpectrumValues,
     frequency |-> Zero,
     dc        |-> Zero,
     ac        |-> [sqrt |-> Zero],
     rms       |-> [sqrt |-> Zero],
     valid     |-> TRUE]

\* PPresult(channelCount)
NewPPresult == [ch \in Channels |-> DefaultDataChannel]

\* std::vector<double>::resize(n): keeps the first n, value-initialises the rest
Resize(v, n) == [i \in 1 .. n |-> IF i <= Len(v) THEN v[i] ELSE 0]

----------------------------------------------------------------------------
(* Settings *)

MathModes == {"ADD_CH1_CH2", "SUB_CH2_FROM_CH1", "SUB_CH1_FROM_CH2"}

WindowFunctions == {"RECTANGULAR", "HAMMING", "BARTLETTHANN"}

DefaultScope ==
    [voltage  |-> [ch \in Channels |-> [used |-> FALSE]],
     spectrum |-> [ch \in Channels |-> [used |-> FALSE]],
     mathMode |-> "ADD_CH1_CH2"]

DefaultPostprocessing ==
    [spectrumWindow |-> "RECTANGULAR", spectrumReference |-> 0, spectrumLimit |-> -60]

NoBuffer == [kind |-> "none", length |-> 0]

NoTrace == [ch \in Channels |-> [processed |-> FALSE]]

----------------------------------------------------------------------------
(* Acquisition: the external collaborator that fills the physical channels *)

Intervals == {1, 2}

\* a record of n samples base+1, base+2, ...
Ramp(n, base) == [i \in 1 .. n |-> base + i]

Acquire(n0, n1, iv) ==
    /\ ~crashed
    /\ result' = [result EXCEPT
                    ![0].voltage = [sample |-> Ramp(n0, 0), interval |-> iv],
                    ![1].voltage = [sample |-> Ramp(n1, 3), interval |-> iv]]
    /\ lastOp' = "acquire"
    /\ faults' = {}
    /\ trace' = NoTrace
    /\ UNCHANGED <<scope, postprocessing, lastWindowBuffer, lastWindow,
                   lastRecordLength, rhsFirst, crashed>>

\* the user enables or disables the math channel and picks the operator
ConfigureMath(mode, vUsed, sUsed) ==
    /\ ~crashed
    /\ scope' = [scope EXCEPT
                    !.mathMode = mode,
                    !.voltage[PhysicalChannels].used = vUsed,
                    !.spectrum[PhysicalChannels].used = sUsed]
    /\ scope' # scope
    /\ lastOp' = "configure"
    /\ faults' = {}
    /\ UNCHANGED <<result, postprocessing, lastWindowBuffer, lastWindow,
                   lastRecordLength, rhsFirst, trace, crashed>>

----------------------------------------------------------------------------
(* MathChannelGenerator::process (mathchannelgenerator.cpp) *)

\* the switch over Dso::getMathMode: one sample of the math channel
MathSample(mode, ch1, ch2, old) ==
    CASE mode = "ADD_CH1_CH2"      -> ch1 + ch2
      [] mode = "SUB_CH2_FROM_CH1" -> ch1 - ch2
      [] mode = "SUB_CH1_FROM_CH2" -> ch2 - ch1
      [] OTHER                     -> old

\* a combiner that sizes the output after the longer input
MathLengthOfLonger(len1, len2) == IF len1 > len2 THEN len1 ELSE len2

\* resultData.resize(std::min(ch1 size, ch2 size))
MathLength(len1, len2) == Min(len1, len2)

\* *ch1Iterator after i-1 increments; past the end the read is out of bounds
IteratorRead(v, i) == IF i <= Len(v) THEN v[i] ELSE 0

\* the iterations whose ch1Iterator or ch2Iterator would run past its vector
MathFaults(ch1, ch2, n) ==
    (IF n > Len(ch1) THEN {"ch1Iterator past end"} ELSE {}) \cup
    (IF n > Len(ch2) THEN {"ch2Iterator past end"} ELSE {})

\* the body of the loop for one enabled math channel
MathChannel(cd, ch1, ch2, mode) ==
    LET resized == Resize(cd.voltage.sample,
                          MathLength(Len(ch1.voltage.sample), Len(ch2.voltage.sample)))
        filled  == [i \in 1 .. Len(resized) |->
                      MathSample(mode, IteratorRead(ch1.voltage.sample, i),
                                 IteratorRead(ch2.voltage.sample, i), resized[i])]
    IN [cd EXCEPT !.voltage = [sample |-> filled, interval |-> ch1.voltage.interval]]

MathEnabled(ch) == scope.voltage[ch].used \/ scope.spectrum[ch].used

channelsHaveData ==
    result[0].voltage.sample # <<>> /\ result[1].voltage.sample # <<>>

\* a combiner without the early return of line 15
MathResultWithoutEarlyReturn ==
    [ch \in Channels |->
        IF ch >= PhysicalChannels /\ MathEnabled(ch)
        THEN MathChannel(result[ch], result[0], result[1], scope.mathMode)
        ELSE result[ch]]

MathResult ==
    IF ~channelsHaveData THEN result
    ELSE [ch \in Channels |->
            IF ch >= PhysicalChannels /\ MathEnabled(ch)
            THEN MathChannel(result[ch], result[0], result[1], scope.mathMode)
            ELSE result[ch]]

MathProcess ==
    /\ ~crashed
    /\ result' = MathResult
    /\ faults' = IF channelsHaveData /\ \E ch \in DerivedChannels : MathEnabled(ch)
                 THEN MathFaults(result[0].voltage.sample, result[1].voltage.sample,
                                 MathLength(Len(result[0].voltage.sample),
                                            Len(result[1].voltage.sample)))
                 ELSE {}
    /\ lastOp' = "math"
    /\ UNCHANGED <<scope, postprocessing, lastWindowBuffer, lastWindow,
                   lastRecordLength, rhsFirst, trace, crashed>>

----------------------------------------------------------------------------
(* Specification of the math combiner over every acquisition and setting *)

InitMath ==
    /\ result = NewPPresult
    /\ scope = DefaultScope
    /\ postprocessing = DefaultPostprocessing
    /\ lastWindowBuffer = NoBuffer
    /\ lastWindow = "none"
    /\ lastRecordLength = 0
    /\ rhsFirst = TRUE
    /\ lastOp = "init"
    /\ trace = NoTrace
    /\ faults = {}
    /\ crashed = FALSE

NextMath ==
    \/ \E n0, n1 \in 0 .. MaxLen, iv \in Intervals : Acquire(n0, n1, iv)
    \/ \E mode \in MathModes, vUsed, sUsed \in BOOLEAN : ConfigureMath(mode, vUsed, sUsed)
    \/ MathProcess

SpecMath == InitMath /\ [][NextMath]_vars

----------------------------------------------------------------------------
(* Numeric library calls used by SpectrumGenerator::process *)

\* sqrt over the integers: the largest r with r*r <= n
RECURSIVE SqrtFrom(_, _)
SqrtFrom(n, r) == IF (r + 1) * (r + 1) > n THEN r ELSE SqrtFrom(n, r + 1)

Sqrt(n) == SqrtFrom(n, 0)

\* 1000 * 10^(k/20) for k = 0 .. 19, rounded up
DecibelSteps ==
    <<1000, 1123, 1259, 1413, 1585, 1779, 1996, 2239, 2512, 2819,
      3163, 3549, 3982, 4467, 5012, 5624, 6310, 7080, 7944, 8913>>

RECURSIVE Decades(_)
Decades(n) == IF n < 10 THEN 0 ELSE 1 + Decades(n \div 10)

RECURSIVE Pow10(_)
Pow10(d) == IF d = 0 THEN 1 ELSE 10 * Pow10(d - 1)

\* 20 * log10(n) for an integer n >= 1, rounded down to a whole dB
TwentyLog10(n) ==
    LET d == Decades(n)
        k == CHOOSE j \in 1 .. 20 :
                /\ DecibelSteps[j] * Pow10(d) <= 1000 * n
                /\ \A i \in (j + 1) .. 20 : DecibelSteps[i] * Pow10(d) > 1000 * n
    IN 20 * d + (k - 1)

\* element k of a C array kept as a sequence
At(s, k) == s[k + 1]

----------------------------------------------------------------------------
(* SpectrumGenerator::process (part_000), one channel of the loop *)

\* the coefficients the switch of lines 47-137 computes: a pure function of
\* the window kind and the record length
WindowBuffer(kind, n) == [kind |-> kind, length |-> n]

\* divisions by windowEnd = lastRecordLength - 1 in the window formulas
WindowFaults(kind, n) ==
    IF n - 1 # 0 THEN {}
    ELSE CASE kind = "HAMMING"      -> {"floating division by windowEnd = 0"}
           [] kind = "BARTLETTHANN" -> {"integer division by windowEnd = 0",
                                        "floating division by windowEnd = 0"}
           [] OTHER                 -> {}

\* a cache test that forgets the record length
NeedNewWindowIgnoringLength(cache, kind, sampleCount) ==
    cache.buffer = NoBuffer \/ cache.window # kind

\* line 39
NeedNewWindow(cache, kind, sampleCount) ==
    \/ cache.buffer = NoBuffer
    \/ cache.window # kind
    \/ cache.length # sampleCount

\* lines 39-138: the cache after the channel
PrepareWindow(cache, kind, sampleCount) ==
    IF NeedNewWindow(cache, kind, sampleCount)
    THEN [buffer |-> WindowBuffer(kind, sampleCount), window |-> kind, length |-> sampleCount]
    ELSE cache

\* line 155
AddSample(sample, dc, position) == dc + At(sample, position)

\* lines 163-164
AddSquare(sample, dc, ac2, position) ==
    LET acSample == RatAdd(Rat(At(sample, position), 1), <<-dc[1], dc[2]>>)
    IN RatAdd(ac2, RatMul(acSample, acSample))

\* lines 152-169: dc, ac and rms of the record
Statistics(sample) ==
    LET n == Len(sample)
        Sum(dc, position) == AddSample(sample, dc, position)
        Finish(dc) ==
            LET Squares(ac2, position) == AddSquare(sample, dc, ac2, position)
                Result(ac2) ==
                    [dc |-> dc, ac |-> [sqrt |-> ac2],
                     rms |-> [sqrt |-> RatAdd(RatMul(dc, dc), ac2)]]
            IN Result(RatMul(Loop(Squares, Zero, 0, n - 1), Rat(1, n)))
    IN Finish(Rat(Loop(Sum, 0, 0, n - 1), n))

\* lines 193-204: the half-complex output s of the forward transform, with
\* bins 1 .. dftLength-1 replaced by their magnitude.  Line 200 reads and
\* increments fwd in one expression: the read sees fwd before the increment
\* (first) or after it.
Magnitudes(s, sampleCount, dftLength, first) ==
    [i \in 1 .. sampleCount |->
        LET k == i - 1
        IN IF 1 <= k /\ k < dftLength
           THEN LET fwd == IF first THEN At(s, k) ELSE At(s, k + 1)
                    rev == At(s, sampleCount - k)
                IN Sqrt(fwd * fwd + rev * rev)
           ELSE s[i]]

\* position and fwd after the loop of line 197
AfterLoop(dftLength) == IF dftLength > 1 THEN dftLength ELSE 1

\* lines 191-208: the input of the inverse transform, as fractions
\* (dftLength > 0)
ConjugateComplex(s, sampleCount, dftLength) ==
    LET square == dftLength * dftLength
        last   == AfterLoop(dftLength)
    IN [i \in 1 .. sampleCount |->
        LET k == i - 1
        IN IF k = 0 THEN Rat(At(s, 0) * At(s, 0), square)
           ELSE IF k < dftLength
                THEN Rat(At(s, k) * At(s, k) + At(s, sampleCount - k) * At(s, sampleCount - k),
                         square)
           ELSE IF k = last THEN Rat(At(s, k) * At(s, k), square)
           ELSE Zero]

\* lines 191-210: what the buffer arithmetic does outside its bounds
TransformFaults(sampleCount, dftLength) ==
    (IF dftLength = 0 THEN {"floating division by dftLength = 0"} ELSE {}) \cup
    (IF AfterLoop(dftLength) >= sampleCount
     THEN {"read of spectrum.sample past its end", "write of conjugateComplex past its end"}
     ELSE {}) \cup
    (IF dftLength = 0 THEN {"dftLength - 1 wraps around"} ELSE {})

\* a truncation that keeps the Nyquist bin
TruncatedLengthWithNyquist(dftLength) == dftLength

\* line 210 (dftLength >= 1)
TruncatedLength(dftLength) == dftLength - 1

\* a scan that lets an equal value take the peak
PeakStepLastWins(correlation, st, position) ==
    LET c == At(correlation, position)
    IN IF c >= st.peakCorrelation /\ c > st.minimumCorrelation
       THEN [st EXCEPT !.peakCorrelation = c, !.peakPosition = position]
       ELSE IF c < st.minimumCorrelation
            THEN [st EXCEPT !.minimumCorrelation = c]
            ELSE st

\* lines 224-228: one position of the scan of the correlation
PeakStep(correlation, st, position) ==
    LET c == At(correlation, position)
    IN IF c > st.peakCorrelation /\ c > st.minimumCorrelation
       THEN [st EXCEPT !.peakCorrelation = c, !.peakPosition = position]
       ELSE IF c < st.minimumCorrelation
            THEN [st EXCEPT !.minimumCorrelation = c]
            ELSE st

\* lines 219-229
PeakPosition(correlation, sampleCount) ==
    LET Step(st, position) == PeakStep(correlation, st, position)
    IN Loop(Step,
            [minimumCorrelation |-> At(correlation, 0), peakCorrelation |-> 0,
             peakPosition |-> 0],
            1, (sampleCount \div 2) - 1).peakPosition

\* line 234: the smallest peak position the autocorrelation is trusted above
PeakThreshold == 100

\* a threshold test that accepts the threshold itself
AutocorrelationFrequencyInclusive(interval, peakPosition) ==
    IF peakPosition >= PeakThreshold THEN Rat(1, interval * peakPosition) ELSE Zero

\* lines 234-237
AutocorrelationFrequency(interval, peakPosition) ==
    IF peakPosition > PeakThreshold THEN Rat(1, interval * peakPosition) ELSE Zero

\* line 243 (dftLength >= 1)
Offset(reference, dftLength) == 60 - reference - TwentyLog10(dftLength)

\* a floor that is the display limit itself, not taken relative to the reference
OffsetLimitWithoutReference(limit, reference) == limit

\* line 244
OffsetLimit(limit, reference) == limit - reference

\* lines 249-252: log10(0) is minus infinity, which every limit exceeds
Decibel(bin, offset, offsetLimit) ==
    IF bin = 0 THEN offsetLimit
    ELSE LET value == TwentyLog10(Abs(bin)) + offset
         IN IF offsetLimit > value THEN offsetLimit ELSE value

\* lines 255-258: the peak search at one converted bin
SpectrumPeakStep(converted, st, position) ==
    IF st.peakSpectrum < At(converted, position)
    THEN [peakSpectrum |-> At(converted, position), peakPos |-> position]
    ELSE st

\* lines 240-262 for a spectrum that is converted: line 246 seeds the search
\* with the first bin as the truncation left it, not yet converted; on an
\* empty spectrum that read is out of bounds and its value is never used
ConvertSpectrum(truncated, offset, offsetLimit) ==
    LET converted == [i \in 1 .. Len(truncated) |-> Decibel(truncated[i], offset, offsetLimit)]
        seed      == IF truncated = <<>> THEN 0 ELSE At(truncated, 0)
        Step(st, position) == SpectrumPeakStep(converted, st, position)
    IN [sample  |-> converted,
        peakPos |-> Loop(Step, [peakSpectrum |-> seed, peakPos |-> 0],
                         0, Len(truncated) - 1).peakPos,
        faults  |-> IF truncated = <<>>
                    THEN {"read of the first bin of an empty spectrum"} ELSE {}]

\* a clearing that also resets the measurements of the channel
ClearMeasurements(cd) ==
    [cd EXCEPT !.spectrum = [sample |-> <<>>, interval |-> Zero],
               !.frequency = Zero, !.dc = Zero,
               !.ac = [sqrt |-> Zero], !.rms = [sqrt |-> Zero]]

\* a clearing that empties the samples and leaves the interval
ClearSamplesOnly(cd) ==
    [cd EXCEPT !.spectrum.sample = <<>>]

\* lines 31-36: a channel without samples
ClearChannel(cd) ==
    [cd EXCEPT !.spectrum = [sample |-> <<>>, interval |-> Zero]]

\* lines 37-267: a channel with samples.  fft and correlation are what the
\* two fftw_execute calls leave in their output buffers.
AnalyseChannel(cd, used, cache, first, fft, correlation) ==
    LET sampleCount  == Len(cd.voltage.sample)
        kind         == postprocessing.spectrumWindow
        recomputed   == NeedNewWindow(cache, kind, sampleCount)
        newCache     == PrepareWindow(cache, kind, sampleCount)
        dftLength    == sampleCount \div 2
        interval     == Rat(1, cd.voltage.interval * sampleCount)
        stats        == Statistics(cd.voltage.sample)
        early        == (IF recomputed THEN WindowFaults(kind, sampleCount) ELSE {}) \cup
                        (IF newCache.buffer.length < sampleCount
                         THEN {"read of lastWindowBuffer past its end"} ELSE {}) \cup
                        TransformFaults(sampleCount, dftLength)
        withStats    == [cd EXCEPT !.spectrum.interval = interval,
                                    !.dc = stats.dc, !.ac = stats.ac, !.rms = stats.rms]
    IN IF dftLength = 0
       THEN \* resize(dftLength - 1) asks for 4294967295 bins: the allocation
            \* fails and the exception ends the process
            [data    |-> [withStats EXCEPT !.spectrum.sample = fft],
             cache   |-> newCache,
             faults  |-> early,
             crashed |-> TRUE,
             trace   |-> [processed |-> TRUE, sampleCount |-> sampleCount,
                          recomputed |-> recomputed, before |-> cache,
                          window |-> newCache.buffer, completed |-> FALSE]]
       ELSE LET magnitude    == Magnitudes(fft, sampleCount, dftLength, first)
                conjugate    == ConjugateComplex(fft, sampleCount, dftLength)
                truncated    == Resize(magnitude, TruncatedLength(dftLength))
                peakPosition == PeakPosition(correlation, sampleCount)
                estimate     == AutocorrelationFrequency(cd.voltage.interval, peakPosition)
                convert      == used \/ estimate = Zero
                conversion   == ConvertSpectrum(truncated,
                                    Offset(postprocessing.spectrumReference, dftLength),
                                    OffsetLimit(postprocessing.spectrumLimit,
                                                postprocessing.spectrumReference))
                peakPos      == IF convert THEN conversion.peakPos ELSE 0
                frequency    == IF peakPos # 0
                                THEN RatMul(interval, Rat(peakPos, 1)) ELSE estimate
            IN [data    |-> [withStats EXCEPT
                                !.spectrum.sample =
                                    IF convert THEN conversion.sample ELSE truncated,
                                !.frequency = frequency],
                cache   |-> newCache,
                faults  |-> early \cup (IF convert THEN conversion.faults ELSE {}),
                crashed |-> FALSE,
                trace   |-> [processed |-> TRUE, sampleCount |-> sampleCount,
                             recomputed |-> recomputed, before |-> cache,
                             window |-> newCache.buffer, completed |-> TRUE,
                             conjugateComplex |-> conjugate,
                             truncated |-> truncated, correlation |-> correlation,
                             peakPosition |-> peakPosition, estimate |-> estimate,
                             converted |-> convert, peakPos |-> peakPos]]

----------------------------------------------------------------------------
(* SpectrumGenerator::process, the loop over the channels *)

\* What an fftw_execute call leaves in an output buffer of n values: the
\* values of head, then fill, with one value spike at C index spikeAt.
Expand(d, n) ==
    [i \in 1 .. n |->
        IF i - 1 = d.spikeAt THEN d.spike
        ELSE IF i <= Len(d.head) THEN d.head[i] ELSE d.fill]

CurrentCache ==
    [buffer |-> lastWindowBuffer, window |-> lastWindow, length |-> lastRecordLength]

\* lines 28-267 from channel ch on; a channel that ends the process leaves
\* the later channels as they were
RECURSIVE ProcessFrom(_, _, _, _, _, _, _)
ProcessFrom(ch, res, cache, tr, flt, fftOut, corOut) ==
    IF ch >= ChannelCount
    THEN [result |-> res, cache |-> cache, trace |-> tr, faults |-> flt, crashed |-> FALSE]
    ELSE IF res[ch].voltage.sample = <<>>
    THEN ProcessFrom(ch + 1, [res EXCEPT ![ch] = ClearChannel(res[ch])], cache,
                     [tr EXCEPT ![ch] = [processed |-> TRUE, sampleCount |-> 0]],
                     flt, fftOut, corOut)
    ELSE LET n   == Len(res[ch].voltage.sample)
             out == AnalyseChannel(res[ch], scope.spectrum[ch].used, cache, rhsFirst,
                                   Expand(fftOut, n), Expand(corOut, n))
         IN IF out.crashed
            THEN [result |-> [res EXCEPT ![ch] = out.data], cache |-> out.cache,
                  trace |-> [tr EXCEPT ![ch] = out.trace],
                  faults |-> flt \cup out.faults, crashed |-> TRUE]
            ELSE ProcessFrom(ch + 1, [res EXCEPT ![ch] = out.data], out.cache,
                             [tr EXCEPT ![ch] = out.trace], flt \cup out.faults,
                             fftOut, corOut)

SpectrumProcess(fftOut, corOut) ==
    /\ ~crashed
    /\ \E out \in {ProcessFrom(0, result, CurrentCache, NoTrace, {}, fftOut, corOut)} :
          /\ result' = out.result
          /\ lastWindowBuffer' = out.cache.buffer
          /\ lastWindow' = out.cache.window
          /\ lastRecordLength' = out.cache.length
          /\ trace' = out.trace
          /\ faults' = out.faults
          /\ crashed' = out.crashed
    /\ lastOp' = "spectrum"
    /\ UNCHANGED <<scope, postprocessing, rhsFirst>>

\* the user picks another window function
SetWindow(kind) ==
    /\ ~crashed
    /\ kind # postprocessing.spectrumWindow
    /\ postprocessing' = [postprocessing EXCEPT !.spectrumWindow = kind]
    /\ lastOp' = "configure"
    /\ faults' = {}
    /\ trace' = NoTrace
    /\ UNCHANGED <<result, scope, lastWindowBuffer, lastWindow, lastRecordLength,
                   rhsFirst, crashed>>

----------------------------------------------------------------------------
(* Specification of the analyzer over passes on changing acquisitions *)

\* transform outputs tried per pass
PassFft == { [head |-> <<3, 3, 0>>, fill |-> 4, spikeAt |-> -1, spike |-> 0] }

PassWindows == WindowFunctions

PassCorrelation == { [head |-> <<2, 1>>, fill |-> 3, spikeAt |-> -1, spike |-> 0] }

InitSpectrum ==
    /\ result = NewPPresult
    /\ scope = DefaultScope
    /\ postprocessing = DefaultPostprocessing
    /\ lastWindowBuffer = NoBuffer
    /\ lastWindow = "none"
    /\ lastRecordLength = 0
    /\ rhsFirst = TRUE
    /\ lastOp = "init"
    /\ trace = NoTrace
    /\ faults = {}
    /\ crashed = FALSE

NextSpectrum ==
    \/ \E n0, n1 \in 0 .. MaxLen : Acquire(n0, n1, 1)
    \/ \E kind \in PassWindows : SetWindow(kind)
    \/ \E fftOut \in PassFft, corOut \in PassCorrelation : SpectrumProcess(fftOut, corOut)

SpecSpectrum == InitSpectrum /\ [][NextSpectrum]_vars

----------------------------------------------------------------------------
(* Specification of one channel's analysis over the transform outputs *)

\* a record of n samples 1, 0, 1, 0, ...
Square(n) == [i \in 1 .. n |-> i % 2]

RecordLengths == (1 .. MaxShort) \cup {LongLen}

References == {0, 60}

Limits == {-60, 58}

NoSpike == 0 - 1

PlainFft == [head |-> <<0, 3, 0>>, fill |-> 0, spikeAt |-> NoSpike, spike |-> 0]

PlainCorrelation == [head |-> <<2, 1>>, fill |-> 0, spikeAt |-> NoSpike, spike |-> 0]

\* forward transforms: the first three real parts free, the rest alike
AnalysisFft ==
    { [head |-> <<a, b, c>>, fill |-> f, spikeAt |-> NoSpike, spike |-> 0] :
        a \in {-3, 0, 3}, b \in {-3, 0, 3}, c \in {-3, 0, 3}, f \in {0, 4} }

\* correlations: the first four values free
AnalysisCorrelation ==
    { [head |-> <<a, b, c, d>>, fill |-> 0, spikeAt |-> NoSpike, spike |-> 0] :
        a \in -1 .. 2, b \in -1 .. 2, c \in -1 .. 2, d \in -1 .. 2 }

\* correlations that fall from 5 to 0 and rise once, at or just above the threshold
SpikeCorrelation ==
    { [head |-> <<5, 1>>, fill |-> 0, spikeAt |-> k, spike |-> 3] :
        k \in {PeakThreshold, PeakThreshold + 1} }

\* forward transforms with the largest bin first, or second
PeakFft ==
    { [head |-> h, fill |-> 0, spikeAt |-> NoSpike, spike |-> 0] :
        h \in {<<3, 0, 0>>, <<0, 3, 0>>, <<-3, 0, 3>>} }

InitAnalysis ==
    /\ \E n \in RecordLengths, iv \in Intervals :
         result = [NewPPresult EXCEPT
                      ![0].voltage = [sample |-> Square(n), interval |-> iv]]
    /\ \E used \in BOOLEAN :
         scope = [DefaultScope EXCEPT !.spectrum[0].used = used]
    /\ \E reference \in References, limit \in Limits :
         postprocessing = [DefaultPostprocessing EXCEPT
                              !.spectrumReference = reference,
                              !.spectrumLimit = limit]
    /\ lastWindowBuffer = NoBuffer
    /\ lastWindow = "none"
    /\ lastRecordLength = 0
    /\ rhsFirst \in BOOLEAN
    /\ lastOp = "init"
    /\ trace = NoTrace
    /\ faults = {}
    /\ crashed = FALSE

\* one pass over each record: the short records with every forward transform
\* or every correlation, all records with the peaked transforms and correlations
NextAnalysis ==
    /\ lastOp = "init"
    /\ \/ /\ Len(result[0].voltage.sample) <= MaxShort
          /\ \E fftOut \in AnalysisFft : SpectrumProcess(fftOut, PlainCorrelation)
       \/ /\ Len(result[0].voltage.sample) <= MaxShort
          /\ \E corOut \in AnalysisCorrelation : SpectrumProcess(PlainFft, corOut)
       \/ \E fftOut \in PeakFft, corOut \in SpikeCorrelation \cup {PlainCorrelation} :
             SpectrumProcess(fftOut, corOut)

SpecAnalysis == InitAnalysis /\ [][NextAnalysis]_vars

----------------------------------------------------------------------------
(* Claims about the math combiner *)

\* C1: after MathChannelGenerator::process with samples in both of the first
\* two channels, every enabled derived channel holds exactly
\* min(len(ch1), len(ch2)) samples, sample i being ch1[i]+ch2[i], ch1[i]-ch2[i]
\* or ch2[i]-ch1[i] as the math mode selects, and no iterator left its vector.
C1_MathElementwise ==
    (lastOp = "math" /\ channelsHaveData) =>
        \A ch \in DerivedChannels :
            MathEnabled(ch) =>
                LET ch1 == result[0].voltage.sample
                    ch2 == result[1].voltage.sample
                    out == result[ch].voltage.sample
                    n   == IF Len(ch1) <= Len(ch2) THEN Len(ch1) ELSE Len(ch2)
                IN /\ Len(out) = n
                   /\ \A i \in 1 .. n :
                        /\ scope.mathMode = "ADD_CH1_CH2" => out[i] = ch1[i] + ch2[i]
                        /\ scope.mathMode = "SUB_CH2_FROM_CH1" => out[i] = ch1[i] - ch2[i]
                        /\ scope.mathMode = "SUB_CH1_FROM_CH2" => out[i] = ch2[i] - ch1[i]
                   /\ faults = {}

\* C1 witness: inputs of 5 and 3 samples combined as ch2 - ch1 into 3 samples
C1_Witness ==
    /\ lastOp = "math"
    /\ Len(result[0].voltage.sample) = 5
    /\ Len(result[1].voltage.sample) = 3
    /\ scope.mathMode = "SUB_CH1_FROM_CH2"
    /\ MathEnabled(PhysicalChannels)
    /\ result[PhysicalChannels].voltage.sample = <<3, 3, 3>>

\* C2: MathChannelGenerator::process changes only the voltage series of
\* enabled derived channels; the physical channels, every spectrum, frequency,
\* dc, ac, rms, valid, the channel count and the voltage of disabled derived
\* channels stay as they were, and with an empty first or second channel the
\* whole container stays as it was.
C2_MathFrame ==
    [][lastOp' = "math" =>
        /\ DOMAIN result' = DOMAIN result
        /\ \A ch \in Channels :
            /\ result'[ch].spectrum = result[ch].spectrum
            /\ result'[ch].frequency = result[ch].frequency
            /\ result'[ch].dc = result[ch].dc
            /\ result'[ch].ac = result[ch].ac
            /\ result'[ch].rms = result[ch].rms
            /\ result'[ch].valid = result[ch].valid
            /\ (ch < PhysicalChannels \/ ~MathEnabled(ch)) =>
                    result'[ch].voltage = result[ch].voltage
        /\ ~channelsHaveData => result' = result
        /\ UNCHANGED <<scope, postprocessing, lastWindowBuffer, lastWindow,
                       lastRecordLength>>
    ]_vars

\* C2 witness: a pass over an empty first or second channel that left the
\* samples an earlier pass had put into the enabled math channel
C2_Witness ==
    /\ lastOp = "math"
    /\ ~channelsHaveData
    /\ MathEnabled(PhysicalChannels)
    /\ result[PhysicalChannels].voltage.sample # <<>>

----------------------------------------------------------------------------
(* Claims about the analyzer *)

\* the record length of a channel
SampleCount(ch) == Len(result[ch].voltage.sample)

\* the channels whose analysis ran to its end in the last pass
Analysed(ch) ==
    /\ trace[ch].processed
    /\ trace[ch].sampleCount > 0
    /\ trace[ch].completed

\* C3: after a pass of SpectrumGenerator::process has returned, every channel
\* whose voltage is empty has an empty spectrum with interval 0, whatever an
\* earlier pass had left there.
C3_EmptyChannelCleared ==
    (lastOp = "spectrum" /\ ~crashed) =>
        \A ch \in Channels :
            result[ch].voltage.sample = <<>> =>
                /\ result[ch].spectrum.sample = <<>>
                /\ result[ch].spectrum.interval = <<0, 1>>

\* C3 witness: channel 0, analysed by an earlier pass with 4 samples (its dc
\* is still 10/4), is empty now and the pass has cleared its spectrum
C3_Witness ==
    /\ lastOp = "spectrum"
    /\ ~crashed
    /\ result[0].voltage.sample = <<>>
    /\ result[0].dc = <<5, 2>>
    /\ result[0].spectrum.sample = <<>>

\* C4: after a pass, a channel with N >= 2 voltage samples has a spectrum of
\* exactly floor(N/2) - 1 bins, converted to dB or not.
C4_SpectrumLength ==
    lastOp = "spectrum" =>
        \A ch \in Channels :
            (trace[ch].processed /\ SampleCount(ch) >= 2) =>
                Len(result[ch].spectrum.sample) = (SampleCount(ch) \div 2) - 1

\* C4 witness: the long record, left unconverted, with floor(N/2) - 1 bins
C4_Witness ==
    /\ lastOp = "spectrum"
    /\ SampleCount(0) = LongLen
    /\ ~trace[0].converted
    /\ Len(result[0].spectrum.sample) = (LongLen \div 2) - 1

\* the (window, length) pair the cache holds when the pass reaches channel ch:
\* that of the nearest earlier channel with samples, or what the pass found
EarlierWithSamples(ch) == { c \in Channels : c < ch /\ SampleCount(c) > 0 }

Nearest(ch) == CHOOSE c \in EarlierWithSamples(ch) : \A d \in EarlierWithSamples(ch) : d <= c

\* C5: in a pass the window is computed anew for a channel with samples
\* exactly when nothing is cached or the cached (window, length) pair differs
\* from the channel's; after the channel the cache holds the channel's pair
\* and the coefficients computed for it.
C5_WindowCache ==
    [][lastOp' = "spectrum" =>
        \A ch \in Channels :
            (trace'[ch].processed /\ SampleCount(ch) > 0) =>
                LET kind    == postprocessing.spectrumWindow
                    n       == SampleCount(ch)
                    nothing == EarlierWithSamples(ch) = {} /\ lastWindowBuffer = NoBuffer
                    cached  == IF EarlierWithSamples(ch) = {}
                               THEN <<lastWindow, lastRecordLength>>
                               ELSE <<kind, SampleCount(Nearest(ch))>>
                IN /\ trace'[ch].recomputed <=> (nothing \/ cached # <<kind, n>>)
                   /\ trace'[ch].window = [kind |-> kind, length |-> n]
                   /\ (\A c \in Channels : c > ch => SampleCount(c) = 0 \/ ~trace'[c].processed)
                        => /\ lastWindow' = kind
                           /\ lastRecordLength' = n
                           /\ lastWindowBuffer' = [kind |-> kind, length |-> n]
    ]_vars

\* C5 witness: a pass that reused the window for channel 0 (4 samples, as the
\* pass before ended) and computed a new one for channel 1 (5 samples)
C5_Witness ==
    /\ lastOp = "spectrum"
    /\ trace[0].processed /\ trace[0].sampleCount = 4 /\ ~trace[0].recomputed
    /\ trace[1].processed /\ trace[1].sampleCount = 5 /\ trace[1].recomputed

\* C6: when a channel's spectrum is converted to dB, every bin is at least
\* spectrumLimit - spectrumReference; a bin whose value 20*log10(|bin|) + offset
\* lies below that floor is exactly the floor, every other bin is that value.
C6_DecibelFloor ==
    lastOp = "spectrum" =>
        \A ch \in Channels :
            (Analysed(ch) /\ trace[ch].converted) =>
                LET floor  == postprocessing.spectrumLimit - postprocessing.spectrumReference
                    offset == 60 - postprocessing.spectrumReference
                                 - TwentyLog10(SampleCount(ch) \div 2)
                    bins   == trace[ch].truncated
                    out    == result[ch].spectrum.sample
                IN /\ Len(out) = Len(bins)
                   /\ \A i \in 1 .. Len(out) :
                        /\ out[i] >= floor
                        /\ bins[i] = 0 => out[i] = floor
                        /\ bins[i] # 0 =>
                            LET value == TwentyLog10(Abs(bins[i])) + offset
                            IN /\ value < floor => out[i] = floor
                               /\ value >= floor => out[i] = value

\* C6 witness: a converted spectrum with a non-zero bin raised to the floor
\* and another bin above the floor
C6_Witness ==
    /\ lastOp = "spectrum"
    /\ Analysed(0) /\ trace[0].converted
    /\ postprocessing.spectrumReference = 60
    /\ \E i, j \in 1 .. Len(result[0].spectrum.sample) :
        /\ trace[0].truncated[i] # 0
        /\ result[0].spectrum.sample[i] =
              postprocessing.spectrumLimit - postprocessing.spectrumReference
        /\ TwentyLog10(Abs(trace[0].truncated[i])) + 60 - postprocessing.spectrumReference
              - TwentyLog10(SampleCount(0) \div 2)
              < postprocessing.spectrumLimit - postprocessing.spectrumReference
        /\ result[0].spectrum.sample[j] >
              postprocessing.spectrumLimit - postprocessing.spectrumReference

\* C7: a pass divides by neither windowEnd = 0 nor dftLength = 0, lets
\* dftLength - 1 not wrap around, and keeps every buffer access within bounds,
\* for every record length N >= 1.
C7_ShortInputsGuarded ==
    lastOp = "spectrum" => (faults = {} /\ ~crashed)

\* the smallest correlation value before index p
RunningMinimum(correlation, p) ==
    CHOOSE m \in { At(correlation, q) : q \in 0 .. (p - 1) } :
        \A q \in 0 .. (p - 1) : m <= At(correlation, q)

\* the indices of the scan whose value is a local maximum above the running
\* minimum
LocalMaxima(correlation, n) ==
    { p \in 1 .. ((n \div 2) - 1) :
        /\ At(correlation, p) > At(correlation, p - 1)
        /\ At(correlation, p) >= At(correlation, p + 1)
        /\ At(correlation, p) > RunningMinimum(correlation, p) }

\* the indices of the scan whose value is positive and above the running minimum
Eligible(correlation, n) ==
    { p \in 1 .. ((n \div 2) - 1) :
        /\ At(correlation, p) > 0
        /\ At(correlation, p) > RunningMinimum(correlation, p) }

\* C8 as stated: peakPosition is the index of the first local maximum above
\* the running minimum, and 0 when there is none.
C8_FirstLocalMaximum ==
    lastOp = "spectrum" =>
        \A ch \in Channels :
            Analysed(ch) =>
                LET c      == trace[ch].correlation
                    maxima == LocalMaxima(c, SampleCount(ch))
                IN IF maxima = {}
                   THEN trace[ch].peakPosition = 0
                   ELSE /\ trace[ch].peakPosition \in maxima
                        /\ \A q \in maxima : trace[ch].peakPosition <= q

\* C8: the scan over 1 .. N/2-1 leaves in peakPosition the first index that
\* attains the largest value among the positions whose value is positive and
\* above the smallest correlation value before them; a later equal value does
\* not take the peak; peakPosition is 0 when there is no such position.
C8_LargestEligible ==
    lastOp = "spectrum" =>
        \A ch \in Channels :
            Analysed(ch) =>
                LET c        == trace[ch].correlation
                    eligible == Eligible(c, SampleCount(ch))
                    peak     == trace[ch].peakPosition
                IN IF eligible = {}
                   THEN peak = 0
                   ELSE /\ peak \in eligible
                        /\ \A q \in eligible :
                              /\ At(c, q) <= At(c, peak)
                              /\ At(c, q) = At(c, peak) => peak <= q

\* C8 witness: the correlation 0, 1, 2, 2 of a record of 8 samples: the peak
\* is at 2, past the smaller local value at 1 and before the equal value at 3
C8_Witness ==
    /\ lastOp = "spectrum"
    /\ Analysed(0)
    /\ SampleCount(0) = 8
    /\ SubSeq(trace[0].correlation, 1, 4) = <<0, 1, 2, 2>>
    /\ trace[0].peakPosition = 2

\* C9: after a conversion of a non-empty spectrum, peakPos is the first index
\* of the largest converted value.
C9_PeakOfConverted ==
    lastOp = "spectrum" =>
        \A ch \in Channels :
            (Analysed(ch) /\ trace[ch].converted /\ trace[ch].truncated # <<>>) =>
                LET out == result[ch].spectrum.sample
                    pos == trace[ch].peakPos
                IN /\ pos \in 0 .. (Len(out) - 1)
                   /\ \A q \in 0 .. (Len(out) - 1) :
                         /\ At(out, q) <= At(out, pos)
                         /\ At(out, q) = At(out, pos) => pos <= q

WithSamples == { c \in Channels : SampleCount(c) > 0 }

\* C11: a pass of SpectrumGenerator::process that returns leaves every
\* channel's voltage series and the channel count as they were; of a channel
\* without samples it changes the spectrum only: frequency, dc, ac, rms and
\* valid keep what an earlier pass left; such a channel leaves the window
\* cache alone: without any channel with samples the cache is unchanged, and
\* otherwise it holds the length of the last channel with samples.
C11_SpectrumFrame ==
    [][(lastOp' = "spectrum" /\ ~crashed') =>
        /\ DOMAIN result' = DOMAIN result
        /\ \A ch \in Channels :
            /\ result'[ch].voltage = result[ch].voltage
            /\ result[ch].voltage.sample = <<>> =>
                /\ result'[ch].frequency = result[ch].frequency
                /\ result'[ch].dc = result[ch].dc
                /\ result'[ch].ac = result[ch].ac
                /\ result'[ch].rms = result[ch].rms
                /\ result'[ch].valid = result[ch].valid
        /\ WithSamples = {} =>
                UNCHANGED <<lastWindowBuffer, lastWindow, lastRecordLength>>
        /\ WithSamples # {} =>
                \E last \in WithSamples :
                    /\ \A c \in WithSamples : c <= last
                    /\ lastRecordLength' = SampleCount(last)
                    /\ lastWindowBuffer' =
                          [kind |-> postprocessing.spectrumWindow,
                           length |-> SampleCount(last)]
    ]_vars

\* C11 witness: after a pass channel 1 is empty and cleared, still carries
\* the dc and rms of an earlier record, and the cache holds the length of
\* channel 0, the last channel with samples
C11_Witness ==
    /\ lastOp = "spectrum"
    /\ ~crashed
    /\ SampleCount(0) = 4
    /\ result[1].voltage.sample = <<>>
    /\ result[1].spectrum.sample = <<>>
    /\ result[1].dc # <<0, 1>>
    /\ result[1].rms # [sqrt |-> <<0, 1>>]
    /\ lastRecordLength = 4

=============================================================================
